---- MODULE Spec2Model ----
(***************************************************************************)
(* Fingerprint enrollment and verification workflow of the TimeSync front  *)
(* end.                                                                    *)
(*                                                                         *)
(*   SpecDialog : FingerprintEnrollmentDialog together with the handlers   *)
(*                of the employees page that open and close it.            *)
(*   SpecKiosk  : TimeStationKiosk (clock in, clock out, leave request).   *)
(*                                                                         *)
(* React state is modelled by one variable per useState cell.  An async    *)
(* handler is split at its awaits: the part of the handler that runs       *)
(* between two awaits is one action.  Closures keep the values they        *)
(* captured when the handler was called (the employee of the render in     *)
(* which the button was clicked), so these are stored with the pending     *)
(* run.  Device and backend responses are inputs chosen with \E.           *)
(***************************************************************************)
EXTENDS Integers, Sequences, FiniteSets, TLC

-----------------------------------------------------------------------------
(* Bounds *)

\* successful captures the device hands out to the enrollment dialog
MaxSamples == 6
\* openings of the enrollment dialog
MaxSessions == 3
\* health requests of the enrollment dialog in flight at once
MaxHealth == 2
\* verification attempts (runs of a scan handler) started at the kiosk
MaxAttempts == 2

-----------------------------------------------------------------------------
(* Values *)

NoEmployee == "none"
Employees == {"e1", "e2"}

\* merged templates are numbered apart from samples: the template returned by
\* the i-th merge call is MergedBase + i
MergedBase == 100

\* STEPS = ['Capture 1', 'Capture 2', 'Capture 3', 'Saving']; activeStep = 3 is 'Saving'
SavingStep == 3
\* const totalCaptures / the "< 3" test of captureFingerprint
RequiredCaptures == 3

\* the kinds of text the dialog stores in `error`
NoError == "null"
ErrCaptureTimeout == "Capture timeout - no finger detected. Click to try again."
ErrCaptureFailed == "Capture failed. Place finger firmly on scanner."
ErrNetwork == "Failed to fetch"
ErrMerge == "Failed to merge fingerprint templates"
ErrSave == "Failed to save fingerprint to database"

-----------------------------------------------------------------------------
(* State of the enrollment dialog and of the page that hosts it *)

VARIABLES
  open,             \* enrollDialogOpen of the employees page (prop open)
  employee,         \* enrollEmployee of the employees page (prop employee)
  activeStep,       \* useState(0)
  capturing,        \* useState(false)
  saving,           \* useState(false)
  templates,        \* useState([]) and templatesRef.current, always assigned together
  error,            \* useState(null)
  success,          \* useState(false)
  scannerConnected, \* useState(false)
  checkingScanner,  \* useState(true)
  statusMessage,    \* useState('')
  pc,               \* position of the pending captureFingerprint run
  runEmployee,      \* employee captured by the closure of the pending run
  runSession,       \* dialog session in which the pending run was started
  runRetry,         \* the pending run was started by the "Retry Capture" button
  newTemplates,     \* local newTemplates of the pending run
  healthPending,    \* GET /health requests of checkScanner in flight
  timers,           \* sessions whose 2 s onSuccess timer is still pending
  session,          \* number of times the dialog has been opened
  nextSample,       \* next sample the device will return
  captures,         \* POST /capture requests that returned a sample; captures[i] returned sample i
  mergeCalls,       \* POST /enroll requests issued so far
  persistCalls      \* POST /employees/fingerprint-enroll/:id requests issued so far

dialogVars == <<open, employee, activeStep, capturing, saving, templates, error,
                success, scannerConnected, checkingScanner, statusMessage, pc,
                runEmployee, runSession, runRetry, newTemplates, healthPending,
                timers, session, nextSample, captures, mergeCalls, persistCalls>>

-----------------------------------------------------------------------------
(* State of TimeStationKiosk *)

VARIABLES
  kScannerConnected,  \* scannerConnected of the kiosk
  clockInDialogOpen,
  clockOutDialogOpen,
  leaveDialogOpen,
  kEmployee,          \* employee of the kiosk
  scanning,
  scanResult,
  scanMessage,
  leaveSubmitting,
  leaveFormComplete,
  attempts            \* the verification attempts (handler runs), pending or finished

kioskVars == <<kScannerConnected, clockInDialogOpen, clockOutDialogOpen,
               leaveDialogOpen, kEmployee, scanning, scanResult, scanMessage, leaveSubmitting, leaveFormComplete, attempts>>

-----------------------------------------------------------------------------
(* State of the device client adapters (fingerprintService, FingerprintApi)
   and of the last adapter call made *)

VARIABLES
  svcIsConnected,   \* _isConnected of fingerprintService
  svcCall           \* the last adapter call: operation, response received, result

adapterVars == <<svcIsConnected, svcCall>>

-----------------------------------------------------------------------------
(* State of a call of FingerprintApi.enrollWithCaptures *)

VARIABLES
  apiPc,        \* position of the call: "idle", "capture", "wait", "enroll"
  apiUserId,    \* parameter userId
  apiI,         \* loop variable i
  apiTemplates, \* local templates
  apiProgress,  \* arguments of the last onProgress call
  apiCalls,     \* requests the call has issued so far, in order
  apiAnswers,   \* capture results the call has received so far, in order
  apiResult     \* what the promise of the call settled to

enrollApiVars == <<apiPc, apiUserId, apiI, apiTemplates, apiProgress, apiCalls,
                   apiAnswers, apiResult>>

-----------------------------------------------------------------------------
(* State of the auth store, of localStorage and of the auth requests *)

VARIABLES
  authUser,        \* user
  authToken,       \* token
  isAuthenticated,
  isLoading,
  authError,       \* error
  lsToken,         \* localStorage 'token'
  lsUser,          \* localStorage 'user'
  loginPending,    \* a login() call is waiting for POST /auth/login
  mePending,       \* GET /auth/me requests of checkAuth's background check in flight
  checkPending,    \* token held by the checkAuth call that is waiting for GET /auth/me
  logoutPending,   \* POST /auth/logout requests in flight
  loggedOut        \* logout() has run and no login has succeeded since

authVars == <<authUser, authToken, isAuthenticated, isLoading, authError, lsToken,
              lsUser, loginPending, mePending, checkPending, logoutPending,
              loggedOut>>

\* everything outside the two components
serviceVars == <<adapterVars, enrollApiVars, authVars>>

vars == <<dialogVars, kioskVars, serviceVars>>

DialogInit ==
  /\ open = FALSE
  /\ employee = NoEmployee
  /\ activeStep = 0
  /\ capturing = FALSE
  /\ saving = FALSE
  /\ templates = <<>>
  /\ error = NoError
  /\ success = FALSE
  /\ scannerConnected = FALSE
  /\ checkingScanner = TRUE
  /\ statusMessage = ""
  /\ pc = "idle"
  /\ runEmployee = NoEmployee
  /\ runSession = 0
  /\ runRetry = FALSE
  /\ newTemplates = <<>>
  /\ healthPending = 0
  /\ timers = {}
  /\ session = 0
  /\ nextSample = 1
  /\ captures = <<>>
  /\ mergeCalls = <<>>
  /\ persistCalls = <<>>

-----------------------------------------------------------------------------
(* What the dialog renders *)

\* the branch of DialogContent that shows the stepper and the main content
MainContentShown ==
  open /\ employee # NoEmployee /\ ~checkingScanner /\ scannerConnected

\* success ? ... : error ? <error view> : ...
ErrorViewShown == MainContentShown /\ ~success /\ error # NoError

\* ... : capturing || saving ? <spinner> : <ready view>
ReadyViewShown ==
  MainContentShown /\ ~success /\ error = NoError /\ ~capturing /\ ~saving

\* {activeStep < 3 && templates.length > 0 && <Button>Retry Capture</Button>}
RetryCaptureShown ==
  ErrorViewShown /\ activeStep < SavingStep /\ Len(templates) > 0

\* <Typography>{activeStep === 3 ? 'Save Failed' : 'Capture Failed'}</Typography>
ErrorTitle == IF activeStep = SavingStep THEN "Save Failed" ELSE "Capture Failed"

-----------------------------------------------------------------------------
(* Employees page *)

\* checkScanner up to its await
CheckScannerStart ==
  /\ checkingScanner' = TRUE
  /\ healthPending' = healthPending + 1

\* handleOpenEnrollDialog, followed by the dialog's reset-on-open effect
HandleOpenEnrollDialog(e) ==
  /\ ~open
  /\ session < MaxSessions
  /\ healthPending < MaxHealth
  /\ employee' = e
  /\ open' = TRUE
  /\ session' = session + 1
  /\ CheckScannerStart
  /\ activeStep' = 0
  /\ templates' = <<>>
  /\ error' = NoError
  /\ success' = FALSE
  /\ saving' = FALSE
  /\ statusMessage' = ""
  /\ UNCHANGED <<kioskVars, serviceVars, captures, capturing, scannerConnected, pc, runEmployee, runSession, runRetry,
                 newTemplates, timers, nextSample, mergeCalls, persistCalls>>

\* the 2 s timer of saveFingerprint fires: onSuccess of the employees page
OnSuccessTimer(s) ==
  /\ s \in timers
  /\ timers' = timers \ {s}
  /\ open' = FALSE
  /\ UNCHANGED <<kioskVars, serviceVars, captures, employee, activeStep, capturing, saving, templates, error,
                 success, scannerConnected, checkingScanner, statusMessage, pc,
                 runEmployee, runSession, runRetry, newTemplates, healthPending, session,
                 nextSample, mergeCalls, persistCalls>>

-----------------------------------------------------------------------------
(* checkScanner *)

\* "Check Again" button of the scanner-not-connected view
CheckAgain ==
  /\ open /\ employee # NoEmployee
  /\ ~checkingScanner /\ ~scannerConnected
  /\ healthPending < MaxHealth
  /\ CheckScannerStart
  /\ UNCHANGED <<kioskVars, serviceVars, captures, open, employee, activeStep, capturing, saving, templates,
                 error, success, scannerConnected, statusMessage, pc,
                 runEmployee, runSession, runRetry, newTemplates, timers, session,
                 nextSample, mergeCalls, persistCalls>>

\* checkScanner after its await: connected = data.device_opened || data.mock_mode
\* on a 2xx response, false on a non-2xx response or a rejected fetch
CheckScannerDone(connected) ==
  /\ healthPending > 0
  /\ healthPending' = healthPending - 1
  /\ scannerConnected' = connected
  /\ checkingScanner' = FALSE
  /\ UNCHANGED <<kioskVars, serviceVars, captures, open, employee, activeStep, capturing, saving, templates,
                 error, success, statusMessage, pc, runEmployee, runSession, runRetry,
                 newTemplates, timers, session, nextSample, mergeCalls,
                 persistCalls>>

-----------------------------------------------------------------------------
(* captureFingerprint *)

\* captureFingerprint up to `await fetch(.../capture)`
CaptureStart(retry) ==
  /\ pc = "idle"
  /\ runRetry' = retry
  /\ capturing' = TRUE
  /\ error' = NoError
  /\ statusMessage' = "Capture " \o ToString(Len(templates) + 1)
                          \o ": Place finger on scanner..."
  /\ pc' = "capture"
  /\ runEmployee' = employee
  /\ runSession' = session
  /\ UNCHANGED <<kioskVars, serviceVars, captures, open, employee, activeStep, saving, templates, success,
                 scannerConnected, checkingScanner, newTemplates,
                 healthPending, timers, session, nextSample, mergeCalls,
                 persistCalls>>

\* the round button and the "Start Capture" / "Capture n" button of the ready view
ClickCapture == ReadyViewShown /\ CaptureStart(FALSE)

\* the "Retry Capture n" button of the error view
ClickRetryCapture == RetryCaptureShown /\ CaptureStart(TRUE)

\* off-by-one variant of StepAfterCapture: the stepper is moved one step too far
StepAfterCaptureOffByOne(n) == IF n + 1 < RequiredCaptures THEN n + 1 ELSE SavingStep

\* if (newTemplates.length < 3) setActiveStep(newTemplates.length) else setActiveStep(3)
StepAfterCapture(n) == IF n < RequiredCaptures THEN n ELSE SavingStep

\* the POST /capture request of the pending run: the session it was started
\* in and the employee of the closure that started it
CaptureRequest == [session |-> runSession, employee |-> runEmployee]

\* the capture request returned {success: true, template}
CaptureSucceeded ==
  /\ pc = "capture"
  /\ nextSample <= MaxSamples
  /\ LET nt == Append(templates, nextSample) IN
       /\ templates' = nt
       /\ newTemplates' = nt
       /\ activeStep' = StepAfterCapture(Len(nt))
       /\ statusMessage' = IF Len(nt) < RequiredCaptures
                             THEN "Capture " \o ToString(Len(nt)) \o " complete!"
                             ELSE "All captures complete. Saving..."
       /\ pc' = IF Len(nt) < RequiredCaptures THEN "pause" ELSE "savedelay"
  /\ nextSample' = nextSample + 1
  /\ captures' = Append(captures, CaptureRequest)
  /\ UNCHANGED <<kioskVars, serviceVars, open, employee, capturing, saving, error, success,
                 scannerConnected, checkingScanner, runEmployee, runSession, runRetry,
                 healthPending, timers, session, mergeCalls, persistCalls>>

\* catch and finally of captureFingerprint
CaptureCatch(msg) ==
  /\ error' = msg
  /\ statusMessage' = ""
  /\ capturing' = FALSE
  /\ pc' = "idle"

\* the capture request returned {success: false} (ErrCaptureFailed) or the
\* fetch was rejected by the network (ErrNetwork)
CaptureFailed(msg) ==
  /\ pc = "capture"
  /\ msg \in {ErrCaptureFailed, ErrNetwork}
  /\ CaptureCatch(msg)
  /\ UNCHANGED <<kioskVars, serviceVars, captures, open, employee, activeStep, saving, templates, success,
                 scannerConnected, checkingScanner, runEmployee, runSession, runRetry,
                 newTemplates, healthPending, timers, session, nextSample,
                 mergeCalls, persistCalls>>

\* setTimeout(() => controller.abort(), CAPTURE_TIMEOUT) fires: the fetch
\* rejects with an AbortError
CaptureTimedOut ==
  /\ pc = "capture"
  /\ CaptureCatch(ErrCaptureTimeout)
  /\ UNCHANGED <<kioskVars, serviceVars, captures, open, employee, activeStep, saving, templates, success,
                 scannerConnected, checkingScanner, runEmployee, runSession, runRetry,
                 newTemplates, healthPending, timers, session, nextSample,
                 mergeCalls, persistCalls>>

\* the 500 ms pause after capture 1 or 2 is over
PauseDone ==
  /\ pc = "pause"
  /\ statusMessage' = "Lift finger, then place again for next capture"
  /\ capturing' = FALSE
  /\ pc' = "idle"
  /\ UNCHANGED <<kioskVars, serviceVars, captures, open, employee, activeStep, saving, templates, error, success,
                 scannerConnected, checkingScanner, runEmployee, runSession, runRetry,
                 newTemplates, healthPending, timers, session, nextSample,
                 mergeCalls, persistCalls>>

-----------------------------------------------------------------------------
(* saveFingerprint *)

\* body of POST /enroll
EnrollRequest(emp, capturedTemplates) ==
  [userId |-> emp, templates |-> capturedTemplates, session |-> runSession,
   result |-> "pending"]

\* the 300 ms delay is over: saveFingerprint(newTemplates) up to the await of
\* POST /enroll
SaveStart ==
  /\ pc = "savedelay"
  /\ saving' = TRUE
  /\ error' = NoError
  /\ statusMessage' = "Merging fingerprint templates..."
  /\ mergeCalls' = Append(mergeCalls, EnrollRequest(runEmployee, newTemplates))
  /\ pc' = "merge"
  /\ UNCHANGED <<kioskVars, serviceVars, captures, open, employee, activeStep, capturing, templates, success,
                 scannerConnected, checkingScanner, runEmployee, runSession, runRetry,
                 newTemplates, healthPending, timers, session, nextSample,
                 persistCalls>>

\* catch and finally of saveFingerprint, then finally of captureFingerprint
SaveCatch(msg) ==
  /\ error' = msg
  /\ statusMessage' = ""
  /\ activeStep' = 2
  /\ saving' = FALSE
  /\ capturing' = FALSE
  /\ pc' = "idle"

\* variant of SaveRequest that posts the first captured sample instead of the
\* merged template
SaveRequestFirstSample(emp, mergeIndex) ==
  [employee |-> emp, template |-> newTemplates[1], fingerNo |-> 0,
   quality |-> 100, merge |-> mergeIndex, session |-> runSession,
   result |-> "pending"]

\* body of POST /employees/fingerprint-enroll/:id
SaveRequest(emp, mergeIndex) ==
  [employee |-> emp, template |-> MergedBase + mergeIndex, fingerNo |-> 0,
   quality |-> 100, merge |-> mergeIndex, session |-> runSession,
   result |-> "pending"]

\* POST /enroll returned {success: true, template}: the merged template is
\* posted to the backend
MergeSucceeded ==
  /\ pc = "merge"
  /\ LET i == Len(mergeCalls) IN
       /\ mergeCalls' = [mergeCalls EXCEPT ![i].result = "ok"]
       /\ persistCalls' = Append(persistCalls, SaveRequest(runEmployee, i))
  /\ statusMessage' = "Saving to database..."
  /\ pc' = "persist"
  /\ UNCHANGED <<kioskVars, serviceVars, captures, open, employee, activeStep, capturing, saving, templates,
                 error, success, scannerConnected, checkingScanner,
                 runEmployee, runSession, runRetry, newTemplates, healthPending, timers,
                 session, nextSample>>

\* POST /enroll returned {success: false} or was rejected
MergeFailed ==
  /\ pc = "merge"
  /\ mergeCalls' = [mergeCalls EXCEPT ![Len(mergeCalls)].result = "failed"]
  /\ SaveCatch(ErrMerge)
  /\ UNCHANGED <<kioskVars, serviceVars, captures, open, employee, templates, success, scannerConnected,
                 checkingScanner, runEmployee, runSession, runRetry, newTemplates,
                 healthPending, timers, session, nextSample, persistCalls>>

\* the backend answered 2xx: setSuccess(true) and the auto-close timer
SaveSucceeded ==
  /\ pc = "persist"
  /\ persistCalls' = [persistCalls EXCEPT ![Len(persistCalls)].result = "ok"]
  /\ success' = TRUE
  /\ statusMessage' = "Fingerprint enrolled successfully!"
  /\ timers' = timers \cup {runSession}
  /\ saving' = FALSE
  /\ capturing' = FALSE
  /\ pc' = "idle"
  /\ UNCHANGED <<kioskVars, serviceVars, captures, open, employee, activeStep, templates, error,
                 scannerConnected, checkingScanner, runEmployee, runSession, runRetry,
                 newTemplates, healthPending, session, nextSample, mergeCalls>>

\* the backend answered non-2xx or the fetch was rejected
SaveFailed ==
  /\ pc = "persist"
  /\ persistCalls' = [persistCalls EXCEPT ![Len(persistCalls)].result = "failed"]
  /\ SaveCatch(ErrSave)
  /\ UNCHANGED <<kioskVars, serviceVars, captures, open, employee, templates, success, scannerConnected,
                 checkingScanner, runEmployee, runSession, runRetry, newTemplates,
                 healthPending, timers, session, nextSample, mergeCalls>>

-----------------------------------------------------------------------------
(* handlers *)

\* variant of HandleRetry that keeps the captured samples and the step
HandleRetryKeepsSamples ==
  /\ ErrorViewShown
  /\ error' = NoError
  /\ success' = FALSE
  /\ statusMessage' = ""
  /\ UNCHANGED <<kioskVars, serviceVars, captures, open, employee, activeStep, capturing, saving, templates,
                 scannerConnected, checkingScanner, pc, runEmployee, runSession, runRetry,
                 newTemplates, healthPending, timers, session, nextSample, mergeCalls,
                 persistCalls>>

\* "Start Over" button of the error view
HandleRetry ==
  /\ ErrorViewShown
  /\ templates' = <<>>
  /\ activeStep' = 0
  /\ error' = NoError
  /\ success' = FALSE
  /\ statusMessage' = ""
  /\ UNCHANGED <<kioskVars, serviceVars, captures, open, employee, capturing, saving, scannerConnected,
                 checkingScanner, pc, runEmployee, runSession, runRetry, newTemplates,
                 healthPending, timers, session, nextSample, mergeCalls,
                 persistCalls>>

\* Cancel / Close button, backdrop click, Escape
HandleClose ==
  /\ open /\ employee # NoEmployee
  /\ ~capturing /\ ~saving
  /\ open' = FALSE
  /\ UNCHANGED <<kioskVars, serviceVars, captures, employee, activeStep, capturing, saving, templates, error,
                 success, scannerConnected, checkingScanner, statusMessage, pc,
                 runEmployee, runSession, runRetry, newTemplates, healthPending, timers,
                 session, nextSample, mergeCalls, persistCalls>>

-----------------------------------------------------------------------------
(* TimeStationKiosk: values *)

Attempts == 1..MaxAttempts

\* fingerprintEnrolled of the employee the lookup returns
FingerprintEnrolled(e) == e = "e1"

\* an optional field of a JSON response: <<>> when absent, <<v>> when present
Absent == <<>>
\* JavaScript truthiness of an optional boolean and of an optional number
TruthyFlag(f) == f = <<TRUE>>
TruthyNumber(f) == f # Absent /\ f[1] # 0

\* responses of POST /match: a rejected fetch, or {success?, matched?, score?}
MatchResponses ==
  [neterr : {FALSE}, success : {<<TRUE>>, <<FALSE>>, Absent},
   matched : {<<TRUE>>, <<FALSE>>, Absent},
   score : {Absent, <<0>>, <<1>>, <<-1>>}]
  \cup [neterr : {TRUE}, success : {Absent}, matched : {Absent}, score : {Absent}]

\* the match responses the device sends to the kiosk in this model
KioskMatchResponses ==
  { r \in MatchResponses :
      \/ r.neterr
      \/ r.success = <<FALSE>> /\ r.matched = <<TRUE>> /\ r.score = <<1>>
      \/ r.success = <<TRUE>> /\ r.matched = <<FALSE>> /\ r.score = <<0>>
      \/ r.success = <<TRUE>> /\ r.matched = <<FALSE>> /\ r.score = <<1>>
      \/ r.success = <<TRUE>> /\ r.matched = <<TRUE>> /\ r.score = Absent
      \/ r.success = <<TRUE>> /\ r.matched = Absent /\ r.score = <<1>> }

\* variant of MatchExpression in which a matched field that is present decides,
\* and the score is consulted only when matched is absent
MatchExpressionMatchedFirst(r) ==
  IF r.matched # Absent THEN (IF r.matched = <<TRUE>> THEN "true" ELSE "false")
  ELSE IF r.score = Absent THEN "undefined"
  ELSE IF r.score[1] = 0 THEN "0"
  ELSE IF r.score[1] > 0 THEN "true" ELSE "false"

\* the value of `data.matched === true || (data.score && data.score > 0)`:
\* true, false, or the falsy left operand of && (undefined, 0)
MatchExpression(r) ==
  IF r.matched = <<TRUE>> THEN "true"
  ELSE IF r.score = Absent THEN "undefined"
  ELSE IF r.score[1] = 0 THEN "0"
  ELSE IF r.score[1] > 0 THEN "true" ELSE "false"

\* JavaScript truthiness of the values MatchExpression returns
IsTruthy(v) == v = "true"

\* verifyFingerprint: false on a rejected fetch and on !data.success, else
\* data.matched === true || (data.score && data.score > 0)
VerifyFingerprint(r) ==
  IF r.neterr THEN "false"
  ELSE IF ~TruthyFlag(r.success) THEN "false"
  ELSE MatchExpression(r)

MsgPlace == "Place your finger on the scanner..."
MsgVerifying == "Verifying fingerprint..."
MsgRecording == "Recording attendance..."
MsgClocked == "Clocked"
MsgCaptureFailed == "Failed to capture fingerprint"
MsgNoCapture == "Failed to capture fingerprint. Please try again."
MsgNetwork == "Failed to fetch"
MsgNotRegistered == "No fingerprint registered. Please enroll your fingerprint first."
MsgFetchFailed == "Failed to fetch fingerprint data"
MsgNoTemplate == "No fingerprint template found. Please enroll first."
MsgMismatch == "Fingerprint does not match. Please try again."
MsgRecordFailed == "Failed to record attendance"
MsgLeavePlace == "Place your finger on the scanner to authorize leave request..."
MsgLeaveVerifying == "Verifying identity..."
MsgLeaveNoCapture == "Failed to capture fingerprint"
MsgLeaveNotRegistered == "No fingerprint registered"
MsgLeaveMismatch == "Fingerprint verification failed"
MsgLeaveSubmitting == "Submitting leave request..."
MsgLeaveFailed == "Failed to submit leave request"
MsgLeaveSubmitted == "Leave request submitted successfully!"

\* a handler run that has not been started
FreeAttempt ==
  [pc |-> "free", action |-> "none", employee |-> NoEmployee,
   abandoned |-> FALSE, timer |-> FALSE, late |-> FALSE, captured |-> FALSE, fetched |-> "none",
   fetchFor |-> "none", matchCalled |-> FALSE, matchResp |-> Absent,
   write |-> "none", writeFor |-> "none", writeStatus |-> "none", result |-> "none"]

KioskInit ==
  /\ kScannerConnected = FALSE
  /\ clockInDialogOpen = FALSE
  /\ clockOutDialogOpen = FALSE
  /\ leaveDialogOpen = FALSE
  /\ kEmployee = NoEmployee
  /\ scanning = FALSE
  /\ scanResult = "null"
  /\ scanMessage = ""
  /\ leaveSubmitting = FALSE
  /\ leaveFormComplete = FALSE
  /\ attempts = [a \in Attempts |-> FreeAttempt]

-----------------------------------------------------------------------------
(* TimeStationKiosk: what is rendered *)

AnyDialogOpen == clockInDialogOpen \/ clockOutDialogOpen \/ leaveDialogOpen

\* the dialog that is open, named by the action it serves
OpenAction ==
  IF clockInDialogOpen THEN "clock_in"
  ELSE IF clockOutDialogOpen THEN "clock_out"
  ELSE IF leaveDialogOpen THEN "leave"
  ELSE "none"

\* {!employee ? renderEmployeeLookup() : ...}
LookupShown == AnyDialogOpen /\ kEmployee = NoEmployee

\* clock dialogs: !employee ? ... : scanResult ? renderScanResult() : renderFingerprintScan(action)
ClockScanShown ==
  /\ clockInDialogOpen \/ clockOutDialogOpen
  /\ kEmployee # NoEmployee
  /\ scanResult = "null"

\* leave dialog: leaveFormComplete && !scanResult ? <fingerprint step> : ...
LeaveScanShown ==
  /\ leaveDialogOpen
  /\ kEmployee # NoEmployee
  /\ leaveFormComplete /\ scanResult = "null"

\* leave dialog: ... : scanResult ? renderScanResult() : <form>
LeaveFormShown ==
  /\ leaveDialogOpen
  /\ kEmployee # NoEmployee
  /\ ~leaveFormComplete /\ scanResult = "null"

\* renderScanResult() with its "Try Again" button
TryAgainShown ==
  /\ AnyDialogOpen
  /\ kEmployee # NoEmployee
  /\ scanResult = "failed"

-----------------------------------------------------------------------------
(* TimeStationKiosk: scanner check, dialogs, lookup *)

\* checkScannerConnection, run every 5 s and by the refresh button
CheckScannerConnection(isConnected) ==
  /\ kScannerConnected' = isConnected
  /\ UNCHANGED <<dialogVars, serviceVars, clockInDialogOpen, clockOutDialogOpen,
                 leaveDialogOpen, kEmployee, scanning, scanResult, scanMessage, leaveSubmitting, leaveFormComplete, attempts>>

\* the CLOCK IN, CLOCK OUT and LEAVE REQUEST buttons of the main screen
OpenKioskDialog(action) ==
  /\ ~AnyDialogOpen
  /\ action \in {"clock_in", "clock_out"} => kScannerConnected
  /\ clockInDialogOpen' = (action = "clock_in")
  /\ clockOutDialogOpen' = (action = "clock_out")
  /\ leaveDialogOpen' = (action = "leave")
  /\ UNCHANGED <<dialogVars, serviceVars, kScannerConnected, kEmployee,
                 scanning, scanResult, scanMessage,
                 leaveSubmitting, leaveFormComplete, attempts>>

\* lookupEmployee(id) for the id typed into the Employee ID field: the employee
\* is stored, or the lookup failed (404, inactive account, network)
LookupEmployee(id, found) ==
  /\ LookupShown
  /\ kEmployee' = IF found THEN id ELSE NoEmployee
  /\ UNCHANGED <<dialogVars, serviceVars, kScannerConnected, clockInDialogOpen,
                 clockOutDialogOpen, leaveDialogOpen, scanning, scanResult,
                 scanMessage, leaveSubmitting, leaveFormComplete, attempts>>

\* what is kept of a run that ended once its result is no longer on display
\* (the dialog is closed, "Try Again" is pressed, a scan is started or another
\* run ends): that it ended, and its auto-close timer if that is still pending
Retired(rec) ==
  IF rec.pc = "done"
    THEN [FreeAttempt EXCEPT !.pc = "done", !.timer = rec.timer,
                             !.abandoned = rec.timer /\ rec.abandoned]
    ELSE rec

\* an attempt that is pending, or whose auto-close timer is pending, when its
\* dialog is closed belongs to a session that is over
Abandon(rec) ==
  IF rec.pc \in {"capture", "fetch", "match", "write"} \/ rec.timer
    THEN [rec EXCEPT !.abandoned = TRUE]
    ELSE rec

\* resetAndClose
ResetState ==
  /\ kEmployee' = NoEmployee
  /\ scanResult' = "null"
  /\ scanMessage' = ""
  /\ scanning' = FALSE
  /\ leaveFormComplete' = FALSE
  /\ leaveDialogOpen' = FALSE
  /\ clockInDialogOpen' = FALSE
  /\ clockOutDialogOpen' = FALSE

\* close button, backdrop click, Escape
ResetAndClose ==
  /\ AnyDialogOpen
  /\ ResetState
  /\ attempts' = [a \in Attempts |-> Retired(Abandon(attempts[a]))]
  /\ UNCHANGED <<dialogVars, serviceVars, kScannerConnected, leaveSubmitting>>

\* the 3 s timer of a successful attempt fires: resetAndClose
ResetTimer(t) ==
  /\ attempts[t].timer
  /\ ResetState
  /\ attempts' = [a \in Attempts |->
                    IF a = t THEN Retired([attempts[a] EXCEPT !.timer = FALSE])
                             ELSE Retired(Abandon(attempts[a]))]
  /\ UNCHANGED <<dialogVars, serviceVars, kScannerConnected, leaveSubmitting>>

\* "Try Again" button of renderScanResult
TryAgain ==
  /\ TryAgainShown
  /\ scanResult' = "null"
  /\ scanMessage' = ""
  /\ attempts' = [a \in Attempts |-> Retired(attempts[a])]
  /\ UNCHANGED <<dialogVars, serviceVars, kScannerConnected, clockInDialogOpen,
                 clockOutDialogOpen, leaveDialogOpen, kEmployee,
                 scanning, leaveSubmitting, leaveFormComplete>>

-----------------------------------------------------------------------------
(* TimeStationKiosk: leave form *)

\* handleLeaveFormSubmit: "Next: Fingerprint Authorization"
HandleLeaveFormSubmit ==
  /\ LeaveFormShown
  /\ leaveFormComplete' = TRUE
  /\ scanMessage' = MsgLeavePlace
  /\ scanning' = TRUE
  /\ UNCHANGED <<dialogVars, serviceVars, kScannerConnected, clockInDialogOpen,
                 clockOutDialogOpen, leaveDialogOpen, kEmployee,
                 scanResult, leaveSubmitting, attempts>>

\* "Back to Form" button of the fingerprint step
BackToForm ==
  /\ LeaveScanShown
  /\ ~leaveSubmitting
  /\ leaveFormComplete' = FALSE
  /\ scanning' = FALSE
  /\ UNCHANGED <<dialogVars, serviceVars, kScannerConnected, clockInDialogOpen,
                 clockOutDialogOpen, leaveDialogOpen, kEmployee,
                 scanResult, scanMessage,
                 leaveSubmitting, attempts>>

-----------------------------------------------------------------------------
(* TimeStationKiosk: handleFingerprintScan and handleLeaveFingerPrintVerification *)

Available(a) == attempts[a].pc = "free"

\* the record of the next handler run: attempts are numbered as they start
NewAttempt ==
  CHOOSE a \in Attempts :
    Available(a) /\ \A b \in Attempts : b < a => ~Available(b)

\* variant of StartedAttempt without the await of captureFingerprint(): the
\* stored template is requested while the capture is still pending
StartedAttemptNoAwait(action) ==
  [FreeAttempt EXCEPT !.pc = "fetch", !.action = action,
                      !.employee = kEmployee]

\* employee.id, the database id of an employee object: the key of
\* GET /employees/fingerprint-template/:id and the employeeId of POST /leaves
EmployeeId(e) == "id-" \o e

\* employee.employeeId, the staff number of an employee object: the employeeId
\* of POST /attendance/record
EmployeeNumber(e) == "no-" \o e

\* the employee whose stored template the run requests: employee.id of the
\* handler's closure
FetchEmployee(rec) == EmployeeId(rec.employee)

\* variant of WriteEmployee that names the employee the kiosk shows when the
\* event is posted
WriteEmployeeSelected(rec) ==
  IF rec.action = "leave" THEN EmployeeId(kEmployee) ELSE EmployeeNumber(kEmployee)

\* the employee the posted event names: employee.employeeId (attendance) or
\* employee.id (leave) of the handler's closure
WriteEmployee(rec) ==
  IF rec.action = "leave" THEN EmployeeId(rec.employee)
                          ELSE EmployeeNumber(rec.employee)

\* the handler's closure and its first call, captureFingerprint()
StartedAttempt(action) ==
  [FreeAttempt EXCEPT !.pc = "capture", !.action = action,
                      !.employee = kEmployee]

\* the scan button of renderFingerprintScan: disabled={!employee?.fingerprintEnrolled},
\* rendered only while !scanning
ScanButtonEnabled(action) ==
  /\ ClockScanShown
  /\ OpenAction = action
  /\ ~scanning
  /\ FingerprintEnrolled(kEmployee)

\* handleFingerprintScan(action) up to `await captureFingerprint()`
HandleFingerprintScan(action) ==
  /\ ScanButtonEnabled(action)
  /\ \E a \in Attempts : Available(a)
  /\ scanning' = TRUE
  /\ scanResult' = "null"
  /\ scanMessage' = MsgPlace
  /\ attempts' = [b \in Attempts |->
                    IF b = NewAttempt THEN StartedAttempt(action)
                                      ELSE Retired(attempts[b])]
  /\ UNCHANGED <<dialogVars, serviceVars, kScannerConnected, clockInDialogOpen,
                 clockOutDialogOpen, leaveDialogOpen, kEmployee,
                 leaveSubmitting,
                 leaveFormComplete>>

\* the "Scan Fingerprint" button of the leave dialog: rendered while !scanning,
\* disabled={leaveSubmitting}
LeaveScanButtonEnabled ==
  /\ LeaveScanShown
  /\ ~scanning
  /\ ~leaveSubmitting

\* handleLeaveFingerPrintVerification up to `await captureFingerprint()`
HandleLeaveFingerPrintVerification ==
  /\ LeaveScanButtonEnabled
  /\ \E a \in Attempts : Available(a)
  /\ leaveSubmitting' = TRUE
  /\ attempts' = [b \in Attempts |->
                    IF b = NewAttempt THEN StartedAttempt("leave")
                                      ELSE Retired(attempts[b])]
  /\ UNCHANGED <<dialogVars, serviceVars, kScannerConnected, clockInDialogOpen,
                 clockOutDialogOpen, leaveDialogOpen, kEmployee,
                 scanning, scanResult, scanMessage,
                 leaveFormComplete>>

\* the handler goes on to its next await
Proceed(a, rec, msg) ==
  /\ attempts' = [attempts EXCEPT ![a] = rec]
  /\ scanMessage' = msg
  /\ UNCHANGED <<dialogVars, serviceVars, kScannerConnected, clockInDialogOpen,
                 clockOutDialogOpen, leaveDialogOpen, kEmployee,
                 scanning, scanResult, leaveSubmitting, leaveFormComplete>>

\* the handler ends: success branch or catch, then finally
Finish(a, rec, res, msg) ==
  /\ attempts' = [b \in Attempts |->
                    IF b = a
                      THEN [FreeAttempt EXCEPT !.pc = "done", !.result = res,
                                               !.abandoned = rec.abandoned,
                                               !.matchResp = rec.matchResp,
                                               !.write = rec.write,
                                               !.writeStatus = rec.writeStatus,
                                               !.timer = (res = "success")]
                      ELSE Retired(attempts[b])]
  /\ scanResult' = res
  /\ scanMessage' = msg
  /\ scanning' = FALSE
  /\ leaveSubmitting' = IF rec.action = "leave" THEN FALSE ELSE leaveSubmitting
  /\ UNCHANGED <<dialogVars, serviceVars, kScannerConnected, clockInDialogOpen,
                 clockOutDialogOpen, leaveDialogOpen, kEmployee,
                 leaveFormComplete>>

\* 15 s pass without a response to the capture request; the kiosk's
\* captureFingerprint passes no abort signal and sets no timer
CaptureWindowElapsed(a) ==
  /\ attempts[a].pc = "capture"
  /\ ~attempts[a].late
  /\ attempts' = [attempts EXCEPT ![a].late = TRUE]
  /\ UNCHANGED <<dialogVars, serviceVars, kScannerConnected, clockInDialogOpen,
                 clockOutDialogOpen, leaveDialogOpen, kEmployee,
                 scanning, scanResult, scanMessage,
                 leaveSubmitting, leaveFormComplete>>

CaptureOutcomes == {"ok", "notemplate", "devfail", "neterr"}

\* captureFingerprint() returned or threw
KioskCaptureDone(a, outcome) ==
  LET rec == attempts[a]
      leave == rec.action = "leave" IN
  /\ rec.pc = "capture"
  /\ CASE outcome = "ok" ->
            Proceed(a, [rec EXCEPT !.pc = "fetch", !.captured = TRUE, !.late = FALSE,
                                   !.fetchFor = FetchEmployee(rec)],
                    IF leave THEN MsgLeaveVerifying ELSE MsgVerifying)
       [] outcome = "notemplate" ->
            Finish(a, rec, "failed", IF leave THEN MsgLeaveNoCapture ELSE MsgNoCapture)
       [] outcome = "devfail" -> Finish(a, rec, "failed", MsgCaptureFailed)
       [] outcome = "neterr" -> Finish(a, rec, "failed", MsgNetwork)

FetchOutcomes == {"ok", "empty", "404", "500", "neterr"}

\* GET /employees/fingerprint-template/:id answered
KioskFetchDone(a, outcome) ==
  LET rec == attempts[a]
      leave == rec.action = "leave" IN
  /\ rec.pc = "fetch"
  /\ CASE outcome = "ok" ->
            Proceed(a, [rec EXCEPT !.pc = "match", !.fetched = "ok",
                                   !.matchCalled = TRUE], scanMessage)
       [] outcome = "empty" ->
            IF leave
              THEN Proceed(a, [rec EXCEPT !.pc = "match", !.fetched = "empty",
                                          !.matchCalled = TRUE], scanMessage)
              ELSE Finish(a, rec, "failed", MsgNoTemplate)
       [] outcome = "404" ->
            Finish(a, rec, "failed",
                   IF leave THEN MsgLeaveNotRegistered ELSE MsgNotRegistered)
       [] outcome = "500" ->
            Finish(a, rec, "failed",
                   IF leave THEN MsgLeaveNotRegistered ELSE MsgFetchFailed)
       [] outcome = "neterr" -> Finish(a, rec, "failed", MsgNetwork)

\* variant of KioskMatchDone without the `if (!isMatch) throw`: the event is
\* posted whatever verifyFingerprint() returned
KioskMatchDoneUnchecked(a, r) ==
  LET rec == attempts[a]
      leave == rec.action = "leave"
      seen == [rec EXCEPT !.matchResp = <<r>>] IN
  /\ rec.pc = "match"
  /\ Proceed(a, [seen EXCEPT !.pc = "write",
                              !.write = IF leave THEN "leaves" ELSE "attendance",
                              !.writeFor = WriteEmployee(rec)],
              IF leave THEN MsgLeaveSubmitting ELSE MsgRecording)

\* verifyFingerprint() returned; on a match the event is posted
KioskMatchDone(a, r) ==
  LET rec == attempts[a]
      leave == rec.action = "leave"
      isMatch == IsTruthy(VerifyFingerprint(r))
      seen == [rec EXCEPT !.matchResp = <<r>>] IN
  /\ rec.pc = "match"
  /\ IF isMatch
       THEN Proceed(a, [seen EXCEPT !.pc = "write",
                                    !.write = IF leave THEN "leaves" ELSE "attendance",
                                    !.writeFor = WriteEmployee(rec)],
                    IF leave THEN MsgLeaveSubmitting ELSE MsgRecording)
       ELSE Finish(a, seen, "failed", IF leave THEN MsgLeaveMismatch ELSE MsgMismatch)

\* 2xx, non-2xx, rejected fetch
WriteOutcomes == {"ok", "fail", "neterr"}

\* variant of KioskWriteDone without the `if (!response.ok) throw`: every
\* answered request counts as success
KioskWriteDoneUnchecked(a, outcome) ==
  LET rec == attempts[a]
      leave == rec.action = "leave"
      answered == [rec EXCEPT !.writeStatus = IF outcome = "ok" THEN "ok" ELSE "failed"] IN
  /\ rec.pc = "write"
  /\ IF outcome = "neterr"
       THEN Finish(a, answered, "failed", MsgNetwork)
       ELSE Finish(a, answered, "success", IF leave THEN MsgLeaveSubmitted ELSE MsgClocked)

\* POST /attendance/record or POST /leaves answered
KioskWriteDone(a, outcome) ==
  LET rec == attempts[a]
      leave == rec.action = "leave"
      answered == [rec EXCEPT !.writeStatus = IF outcome = "ok" THEN "ok" ELSE "failed"] IN
  /\ rec.pc = "write"
  /\ CASE outcome = "ok" ->
            Finish(a, answered, "success", IF leave THEN MsgLeaveSubmitted ELSE MsgClocked)
       [] outcome = "fail" ->
            Finish(a, answered, "failed", IF leave THEN MsgLeaveFailed ELSE MsgRecordFailed)
       [] outcome = "neterr" -> Finish(a, answered, "failed", MsgNetwork)

-----------------------------------------------------------------------------
(* Device client adapters: fingerprintService and FingerprintApi *)

\* what a GET /health request can come to: the fetch is rejected (network
\* error, or the 3 s AbortSignal of the components), the status is not 2xx, the
\* body of a 2xx response is not JSON, or it is {device_opened?, mock_mode?}
HealthResponses ==
  [kind : {"neterr", "non2xx", "badjson"}, device_opened : {Absent},
   mock_mode : {Absent}]
  \cup [kind : {"ok"}, device_opened : {<<TRUE>>, <<FALSE>>, Absent},
         mock_mode : {<<TRUE>>, <<FALSE>>, Absent}]

NoHealthResponse == [kind |-> "none", device_opened |-> Absent, mock_mode |-> Absent]

\* the body {} of a /match response
EmptyMatchResponse ==
  [neterr |-> FALSE, success |-> Absent, matched |-> Absent, score |-> Absent]

\* no adapter call made yet
IdleCall ==
  [op |-> "none", health |-> NoHealthResponse, match |-> EmptyMatchResponse,
   outcome |-> "none", connected |-> FALSE, value |-> "none"]

ServiceInit ==
  /\ svcIsConnected = FALSE
  /\ svcCall = IdleCall

\* data.device_opened === true || data.mock_mode === true
IsConnected(h) == h.device_opened = <<TRUE>> \/ h.mock_mode = <<TRUE>>

\* what a health operation gives its caller: it returns `connected`, or throws
Returns(connected) == [outcome |-> "returns", connected |-> connected]
Throws == [outcome |-> "throws", connected |-> FALSE]

\* fingerprintService.checkConnection: try { ok ? flag : false } catch { false }
CheckConnection(h) ==
  IF h.kind = "ok" THEN Returns(IsConnected(h)) ELSE Returns(FALSE)

\* FingerprintApi.checkHealth: no try; `throw new Error(...)` unless response.ok,
\* and the promise of fetch or of response.json() may reject; on 2xx it returns
\* the status, from which the caller reads device_opened and mock_mode
CheckHealth(h) ==
  IF h.kind = "ok" THEN Returns(IsConnected(h)) ELSE Throws

\* checkScannerConnection of the kiosk: as checkConnection, with a 3 s abort signal
KioskCheckScannerConnection(h) ==
  IF h.kind = "ok" THEN Returns(IsConnected(h)) ELSE Returns(FALSE)

\* checkScanner of the enrollment dialog: setScannerConnected(data.device_opened
\* || data.mock_mode) on 2xx, setScannerConnected(false) otherwise and in catch
CheckScanner(h) ==
  IF h.kind = "ok"
    THEN Returns(TruthyFlag(h.device_opened) \/ TruthyFlag(h.mock_mode))
    ELSE Returns(FALSE)

HealthOperations ==
  {"checkConnection", "checkHealth", "checkScannerConnection", "checkScanner"}

HealthResult(op, h) ==
  CASE op = "checkConnection" -> CheckConnection(h)
    [] op = "checkHealth" -> CheckHealth(h)
    [] op = "checkScannerConnection" -> KioskCheckScannerConnection(h)
    [] op = "checkScanner" -> CheckScanner(h)

\* one of the health operations is called and the device answers h
HealthCall(op, h) ==
  LET res == HealthResult(op, h) IN
  /\ svcCall' = [IdleCall EXCEPT !.op = op, !.health = h,
                                  !.outcome = res.outcome,
                                  !.connected = res.connected]
  /\ svcIsConnected' = IF op = "checkConnection" THEN res.connected
                                                 ELSE svcIsConnected
  /\ UNCHANGED <<dialogVars, kioskVars, enrollApiVars, authVars>>

\* variant of Verify without the `if (!data.success) return false`
VerifySuccessIgnored(r) ==
  IF r.neterr THEN "false" ELSE MatchExpression(r)

\* fingerprintService.verify: false on a rejected fetch and on !data.success,
\* else data.matched === true || (data.score && data.score > 0)
Verify(r) ==
  IF r.neterr THEN "false"
  ELSE IF ~TruthyFlag(r.success) THEN "false"
  ELSE MatchExpression(r)

MatchOperations == {"verify", "verifyFingerprint"}

MatchResult(op, r) ==
  CASE op = "verify" -> Verify(r)
    [] op = "verifyFingerprint" -> VerifyFingerprint(r)

\* one of the match adapters is called and the device answers r
MatchCall(op, r) ==
  /\ svcCall' = [IdleCall EXCEPT !.op = op, !.match = r, !.outcome = "returns",
                                  !.value = MatchResult(op, r)]
  /\ UNCHANGED <<dialogVars, kioskVars, svcIsConnected, enrollApiVars, authVars>>

-----------------------------------------------------------------------------
(* FingerprintApi.enrollWithCaptures *)

\* const totalCaptures = 3
TotalCaptures == 3

\* what `await this.capture()` can come to: the fetch or json() is rejected, or
\* the body {success?, template?, error?} of the response
CaptureResults ==
  [neterr : {FALSE}, success : {<<TRUE>>}, template : {<<"t1">>, <<"t2">>, Absent},
   error : {Absent}]
  \cup [neterr : {FALSE}, success : {<<FALSE>>, Absent}, template : {Absent},
         error : {Absent, <<"No finger detected">>}]
  \cup {[neterr |-> TRUE, success |-> Absent, template |-> Absent, error |-> Absent]}

\* a promise that is pending, fulfilled with {success, error?} or rejected
NoResult == [settled |-> "none", success |-> Absent, error |-> Absent]
Returned(ok, err) == [settled |-> "returned", success |-> <<ok>>, error |-> err]
Rejected == [settled |-> "rejected", success |-> Absent, error |-> Absent]

\* what `this.enroll(userId, templates)` can come to
EnrollResults ==
  {Returned(TRUE, Absent), Returned(FALSE, <<"Enrollment failed">>), Rejected}

\* onProgress?.(step, total, message)
Progress(step, message) == [step |-> step, total |-> TotalCaptures, message |-> message]

\* POST /capture and POST /enroll {userId, templates}
CaptureCall == [op |-> "capture", userId |-> NoEmployee, templates |-> <<>>]
EnrollCall(userId, capturedTemplates) ==
  [op |-> "enroll", userId |-> userId, templates |-> capturedTemplates]

EnrollApiInit ==
  /\ apiPc = "idle"
  /\ apiUserId = NoEmployee
  /\ apiI = 0
  /\ apiTemplates = <<>>
  /\ apiProgress = Progress(0, "")
  /\ apiCalls = <<>>
  /\ apiAnswers = <<>>
  /\ apiResult = NoResult

\* top of the loop body for index i: onProgress, then `await this.capture()`
LoopBody(i, calls) ==
  /\ apiI' = i
  /\ apiProgress' = Progress(i + 1, "Capture " \o ToString(i + 1) \o " of "
                                     \o ToString(TotalCaptures)
                                     \o " - Place finger on scanner")
  /\ apiCalls' = Append(calls, CaptureCall)
  /\ apiPc' = "capture"

\* enrollWithCaptures(userId, onProgress) up to the first await
EnrollWithCaptures(userId) ==
  /\ apiPc = "idle"
  /\ apiUserId' = userId
  /\ apiTemplates' = <<>>
  /\ apiAnswers' = <<>>
  /\ apiResult' = NoResult
  /\ LoopBody(0, <<>>)
  /\ UNCHANGED <<dialogVars, kioskVars, adapterVars, authVars>>

\* variant of CaptureAccepted without the `if (!captureResult.success) return`
CaptureAcceptedAlways(r) == TRUE

\* the loop goes on after a capture unless `!captureResult.success`
CaptureAccepted(r) == TruthyFlag(r.success)

\* `await this.capture()` settled
ApiCaptureDone(r) ==
  /\ apiPc = "capture"
  /\ apiAnswers' = Append(apiAnswers, r)
  /\ IF r.neterr
       THEN /\ apiResult' = Rejected
            /\ apiPc' = "idle"
            /\ UNCHANGED <<apiI, apiTemplates, apiProgress, apiCalls>>
       ELSE IF ~CaptureAccepted(r)
         THEN /\ apiResult' =
                   Returned(FALSE, IF r.error # Absent
                                     THEN r.error
                                     ELSE <<"Capture " \o ToString(apiI + 1) \o " failed">>)
              /\ apiPc' = "idle"
              /\ UNCHANGED <<apiI, apiTemplates, apiProgress, apiCalls>>
         ELSE LET pushed == Append(apiTemplates, r.template) IN
              /\ apiTemplates' = pushed
              /\ IF apiI < TotalCaptures - 1
                   THEN /\ apiProgress' = Progress(apiI + 1, "Lift finger and place again")
                        /\ apiPc' = "wait"
                        /\ UNCHANGED <<apiI, apiCalls>>
                   ELSE /\ apiI' = apiI + 1
                        /\ apiProgress' = Progress(TotalCaptures, "Processing enrollment...")
                        /\ apiCalls' = Append(apiCalls, EnrollCall(apiUserId, pushed))
                        /\ apiPc' = "enroll"
              /\ UNCHANGED apiResult
  /\ UNCHANGED <<dialogVars, kioskVars, adapterVars, authVars, apiUserId>>

\* the 1000 ms between two captures are over: i++ and the next loop body
ApiWaitDone ==
  /\ apiPc = "wait"
  /\ LoopBody(apiI + 1, apiCalls)
  /\ UNCHANGED <<dialogVars, kioskVars, adapterVars, authVars, apiUserId,
                 apiTemplates, apiAnswers, apiResult>>

\* `return this.enroll(userId, templates)` settled
ApiEnrollDone(res) ==
  /\ apiPc = "enroll"
  /\ apiResult' = res
  /\ apiPc' = "idle"
  /\ UNCHANGED <<dialogVars, kioskVars, adapterVars, authVars, apiUserId, apiI,
                 apiTemplates, apiProgress, apiCalls, apiAnswers>>

-----------------------------------------------------------------------------
(* authStore and authApi *)

\* GET /auth/me, POST /auth/logout and blocking checkAuth requests in flight at once
MaxAuthRequests == 2

NoUser == "null"
Users == {"u1", "u2"}
\* { email, id: 'temp' }: the user login() makes up when the response has none
TempUser == "temp"
NoToken == "null"
Tokens == {"tok1", "tok2"}

\* localStorage.getItem(key) is null (Absent) or the string stored;
\* JSON.stringify / JSON.parse of a user object
JsonStringify(u) == <<"json", u>>
JsonParse(s) == s[2]

\* responses of POST /auth/login: {token?, user?}, a 401, or no response
LoginResponses ==
  [kind : {"ok"}, token : {Absent} \cup {<<t>> : t \in Tokens},
   user : {Absent, <<"u1">>}]
  \cup [kind : {"401", "neterr"}, token : {Absent}, user : {Absent}]

\* responses of GET /auth/me: the user, a 401, or no response
MeResponses ==
  [kind : {"ok"}, user : Users] \cup [kind : {"401", "neterr"}, user : {NoUser}]

\* what localStorage can hold when the page loads: nothing, or a token
\* without a user entry
StoredAtLoad == {[token |-> Absent, user |-> Absent],
                 [token |-> <<"tok1">>, user |-> Absent]}

\* create<AuthState>(...): the initial state of the store
AuthInit(stored) ==
  /\ lsToken = stored.token
  /\ lsUser = stored.user
  /\ authUser = NoUser
  /\ authToken = IF stored.token = Absent THEN NoToken ELSE stored.token[1]
  /\ isAuthenticated = FALSE
  /\ isLoading = TRUE
  /\ authError = NoError
  /\ loginPending = FALSE
  /\ mePending = 0
  /\ checkPending = NoToken
  /\ logoutPending = 0
  /\ loggedOut = FALSE

InFlight == mePending + logoutPending + (IF checkPending = NoToken THEN 0 ELSE 1)

\* set({ user: null, token: null, isAuthenticated: false, isLoading: false })
SignedOutState ==
  /\ authUser' = NoUser
  /\ authToken' = NoToken
  /\ isAuthenticated' = FALSE
  /\ isLoading' = FALSE

\* localStorage.removeItem('token'); localStorage.removeItem('user')
StorageCleared ==
  /\ lsToken' = Absent
  /\ lsUser' = Absent

\* the response interceptor on a 401 outside /login sets window.location.href:
\* the page is loaded again with an empty localStorage, the store is created
\* anew and the requests of the old page are gone
PageLoad ==
  /\ StorageCleared
  /\ authUser' = NoUser
  /\ authToken' = NoToken
  /\ isAuthenticated' = FALSE
  /\ isLoading' = TRUE
  /\ authError' = NoError
  /\ loginPending' = FALSE
  /\ mePending' = 0
  /\ checkPending' = NoToken
  /\ logoutPending' = 0
  /\ UNCHANGED loggedOut

\* login(email, password) up to `await authApi.login(...)`
Login ==
  /\ ~loginPending
  /\ isLoading' = TRUE
  /\ authError' = NoError
  /\ loginPending' = TRUE
  /\ UNCHANGED <<dialogVars, kioskVars, adapterVars, enrollApiVars, authUser,
                 authToken, isAuthenticated, lsToken, lsUser, mePending,
                 checkPending, logoutPending, loggedOut>>

\* catch of login(): the storage is cleared and the error is stored
LoginCatch(message) ==
  /\ StorageCleared
  /\ SignedOutState
  /\ authError' = message
  /\ loginPending' = FALSE
  /\ UNCHANGED <<mePending, checkPending, logoutPending, loggedOut>>

\* authApi.login settled; `redirect` tells whether the 401 interceptor found
\* the page outside /login
LoginDone(r, redirect) ==
  /\ loginPending
  /\ CASE r.kind = "ok" /\ r.token # Absent ->
            LET user == IF r.user # Absent THEN r.user[1] ELSE TempUser IN
            /\ lsToken' = r.token
            /\ lsUser' = JsonStringify(user)
            /\ authUser' = user
            /\ authToken' = r.token[1]
            /\ isAuthenticated' = TRUE
            /\ isLoading' = FALSE
            /\ authError' = NoError
            /\ loginPending' = FALSE
            /\ loggedOut' = FALSE
            /\ UNCHANGED <<mePending, checkPending, logoutPending>>
       [] r.kind = "ok" /\ r.token = Absent ->
            LoginCatch("No token received from server")
       [] r.kind = "401" ->
            IF redirect THEN PageLoad ELSE LoginCatch("Request failed with status code 401")
       [] r.kind = "neterr" -> LoginCatch("Network Error")
  /\ UNCHANGED <<dialogVars, kioskVars, adapterVars, enrollApiVars>>

\* logout(): storage, state, and authApi.logout() up to its await
LogoutBody ==
  /\ StorageCleared
  /\ SignedOutState
  /\ authError' = NoError
  /\ loggedOut' = TRUE
  /\ UNCHANGED <<loginPending, mePending, checkPending>>

\* the logout button
Logout ==
  /\ InFlight < MaxAuthRequests
  /\ LogoutBody
  /\ logoutPending' = logoutPending + 1
  /\ UNCHANGED <<dialogVars, kioskVars, adapterVars, enrollApiVars>>

\* POST /auth/logout settled ("ok", "401" or "neterr"): authApi.logout swallows
\* the error, but the response interceptor has seen a 401
LogoutDone(r, redirect) ==
  /\ logoutPending > 0
  /\ IF r = "401"
       THEN IF redirect
              THEN PageLoad
              ELSE /\ StorageCleared
                   /\ logoutPending' = logoutPending - 1
                   /\ UNCHANGED <<authUser, authToken, isAuthenticated, isLoading,
                                  authError, loginPending, mePending, checkPending,
                                  loggedOut>>
       ELSE /\ logoutPending' = logoutPending - 1
            /\ UNCHANGED <<authUser, authToken, isAuthenticated, isLoading,
                           authError, lsToken, lsUser, loginPending, mePending,
                           checkPending, loggedOut>>
  /\ UNCHANGED <<dialogVars, kioskVars, adapterVars, enrollApiVars>>

\* checkAuth() up to its return or its await
CheckAuth ==
  /\ InFlight < MaxAuthRequests
  /\ checkPending = NoToken
  /\ IF lsToken = Absent
       THEN /\ SignedOutState
            /\ UNCHANGED <<mePending, checkPending>>
       ELSE IF lsUser # Absent
         THEN /\ authUser' = JsonParse(lsUser)
              /\ authToken' = lsToken[1]
              /\ isAuthenticated' = TRUE
              /\ isLoading' = FALSE
              /\ mePending' = mePending + 1
              /\ UNCHANGED checkPending
         ELSE /\ isLoading' = TRUE
              /\ checkPending' = lsToken[1]
              /\ UNCHANGED <<authUser, authToken, isAuthenticated, mePending>>
  /\ UNCHANGED <<dialogVars, kioskVars, adapterVars, enrollApiVars, authError,
                 lsToken, lsUser, loginPending, logoutPending, loggedOut>>

\* the background authApi.me() of checkAuth settled: then / catch
MeDone(r, redirect) ==
  /\ mePending > 0
  /\ CASE r.kind = "ok" ->
            /\ authUser' = r.user
            /\ lsUser' = JsonStringify(r.user)
            /\ mePending' = mePending - 1
            /\ UNCHANGED <<authToken, isAuthenticated, isLoading, authError, lsToken,
                           loginPending, checkPending, logoutPending, loggedOut>>
       [] r.kind = "401" /\ redirect -> PageLoad
       [] OTHER ->
            /\ LogoutBody
            /\ mePending' = mePending - 1
            /\ logoutPending' = logoutPending + 1
  /\ UNCHANGED <<dialogVars, kioskVars, adapterVars, enrollApiVars>>

\* the awaited authApi.me() of checkAuth settled
CheckAuthDone(r, redirect) ==
  /\ checkPending # NoToken
  /\ CASE r.kind = "ok" ->
            /\ lsUser' = JsonStringify(r.user)
            /\ authUser' = r.user
            /\ authToken' = checkPending
            /\ isAuthenticated' = TRUE
            /\ isLoading' = FALSE
            /\ checkPending' = NoToken
            /\ UNCHANGED <<authError, lsToken, loginPending, mePending,
                           logoutPending, loggedOut>>
       [] r.kind = "401" /\ redirect -> PageLoad
       [] OTHER ->
            /\ StorageCleared
            /\ SignedOutState
            /\ checkPending' = NoToken
            /\ UNCHANGED <<authError, loginPending, mePending, logoutPending,
                           loggedOut>>
  /\ UNCHANGED <<dialogVars, kioskVars, adapterVars, enrollApiVars>>

\* clearError()
ClearError ==
  /\ authError' = NoError
  /\ UNCHANGED <<dialogVars, kioskVars, adapterVars, enrollApiVars, authUser,
                 authToken, isAuthenticated, isLoading, lsToken, lsUser,
                 loginPending, mePending, checkPending, logoutPending, loggedOut>>

\* setLoading(loading)
SetLoading(loading) ==
  /\ isLoading' = loading
  /\ UNCHANGED <<dialogVars, kioskVars, adapterVars, enrollApiVars, authUser,
                 authToken, isAuthenticated, authError, lsToken, lsUser,
                 loginPending, mePending, checkPending, logoutPending, loggedOut>>

-----------------------------------------------------------------------------

DialogNext ==
  \/ \E e \in Employees : HandleOpenEnrollDialog(e)
  \/ \E s \in 1..MaxSessions : OnSuccessTimer(s)
  \/ CheckAgain
  \/ \E c \in BOOLEAN : CheckScannerDone(c)
  \/ ClickCapture
  \/ ClickRetryCapture
  \/ CaptureSucceeded
  \/ \E m \in {ErrCaptureFailed, ErrNetwork} : CaptureFailed(m)
  \/ CaptureTimedOut
  \/ PauseDone
  \/ SaveStart
  \/ MergeSucceeded
  \/ MergeFailed
  \/ SaveSucceeded
  \/ SaveFailed
  \/ HandleRetry
  \/ HandleClose

KioskNext ==
  \/ \E c \in BOOLEAN : CheckScannerConnection(c)
  \/ \E action \in {"clock_in", "clock_out", "leave"} : OpenKioskDialog(action)
  \/ \E id \in Employees, found \in BOOLEAN : LookupEmployee(id, found)
  \/ ResetAndClose
  \/ \E t \in Attempts : ResetTimer(t)
  \/ TryAgain
  \/ HandleLeaveFormSubmit
  \/ BackToForm
  \/ \E action \in {"clock_in", "clock_out"} : HandleFingerprintScan(action)
  \/ HandleLeaveFingerPrintVerification
  \/ \E a \in Attempts : CaptureWindowElapsed(a)
  \/ \E a \in Attempts, o \in CaptureOutcomes : KioskCaptureDone(a, o)
  \/ \E a \in Attempts, o \in FetchOutcomes : KioskFetchDone(a, o)
  \/ \E a \in Attempts, r \in KioskMatchResponses : KioskMatchDone(a, r)
  \/ \E a \in Attempts, o \in WriteOutcomes : KioskWriteDone(a, o)

ServiceNext ==
  \/ \E op \in HealthOperations, h \in HealthResponses : HealthCall(op, h)
  \/ \E op \in MatchOperations, r \in MatchResponses : MatchCall(op, r)

EnrollApiNext ==
  \/ \E userId \in Employees : EnrollWithCaptures(userId)
  \/ \E r \in CaptureResults : ApiCaptureDone(r)
  \/ ApiWaitDone
  \/ \E res \in EnrollResults : ApiEnrollDone(res)

AuthNext ==
  \/ Login
  \/ \E r \in LoginResponses, redirect \in BOOLEAN : LoginDone(r, redirect)
  \/ Logout
  \/ \E r \in {"ok", "401", "neterr"}, redirect \in BOOLEAN : LogoutDone(r, redirect)
  \/ CheckAuth
  \/ \E r \in MeResponses, redirect \in BOOLEAN : MeDone(r, redirect)
  \/ \E r \in MeResponses, redirect \in BOOLEAN : CheckAuthDone(r, redirect)
  \/ ClearError
  \/ \E loading \in BOOLEAN : SetLoading(loading)

\* the components start on a page whose localStorage is empty
Init ==
  /\ DialogInit /\ KioskInit /\ ServiceInit /\ EnrollApiInit
  /\ AuthInit([token |-> Absent, user |-> Absent])


\* the page loads with whatever localStorage holds
InitAuth ==
  /\ DialogInit /\ KioskInit /\ ServiceInit /\ EnrollApiInit
  /\ \E stored \in StoredAtLoad : AuthInit(stored)

SpecDialog == Init /\ [][DialogNext]_vars

\* the dialog under the scheduling the browser guarantees: a timer that was
\* armed fires (the 15 s abort of a capture, the 500 ms pause, the 300 ms delay
\* before saving, the 2 s auto close); nothing is assumed about when, or
\* whether, the device service or the backend answers a request
SpecDialogTimers ==
  /\ SpecDialog
  /\ WF_vars(CaptureTimedOut)
  /\ WF_vars(PauseDone)
  /\ WF_vars(SaveStart)
  /\ WF_vars(\E s \in 1..MaxSessions : OnSuccessTimer(s))

SpecKiosk == Init /\ [][KioskNext]_vars

SpecServices == Init /\ [][ServiceNext]_vars

SpecEnrollApi == Init /\ [][EnrollApiNext]_vars

SpecAuth == InitAuth /\ [][AuthNext]_vars

\* a run is pending exactly while capturing is set, so the buttons that start a
\* run are only shown while no run is pending
SingleRun == (pc = "idle") <=> ~capturing

-----------------------------------------------------------------------------
(* Properties of the enrollment dialog *)

Range(seq) == { seq[i] : i \in 1..Len(seq) }

NoStaleReuse ==
  \A i, j \in 1..Len(mergeCalls) :
    i < j /\ mergeCalls[i].result = "failed"
      => Range(mergeCalls[i].templates) \cap Range(mergeCalls[j].templates) = {}

\* C6: a capture that fails or times out leaves the sample list and the step
\* as they were; a capture that succeeds, a retry included, appends exactly one
\* sample, keeps the earlier ones and moves to the next capture, or to saving
\* after the third.
CaptureFailureKeepsSamples ==
  [][ /\ (pc = "capture" /\ pc' = "idle")
          => templates' = templates /\ activeStep' = activeStep
      /\ (pc = "capture" /\ pc' \in {"pause", "savedelay"} /\ Len(templates) < RequiredCaptures)
          => /\ Len(templates') = Len(templates) + 1
             /\ SubSeq(templates', 1, Len(templates)) = templates
             /\ templates'[Len(templates')] \notin Range(templates)
             /\ IF Len(templates) + 1 < RequiredCaptures
                  THEN activeStep' = Len(templates) + 1 /\ pc' = "pause"
                  ELSE activeStep' = SavingStep /\ pc' = "savedelay"
    ]_vars

\* C6 witness: capture 2 failed, was retried with "Retry Capture 2" and
\* succeeded: sample 1 is still there and the dialog is at capture 3.
RetriedCaptureKeptSample ==
  /\ runRetry /\ pc = "pause"
  /\ Len(templates) = 2 /\ templates[1] = 1
  /\ activeStep = 2

\* C9: success is shown only after a merge that succeeded and a persist call,
\* answered 2xx, that carried the template of that merge with fingerNo 0 and
\* quality 100 for the employee of that merge; a persist call is only ever made
\* for a merge that succeeded, once, and never carries a sample.
SuccessOnlyAfterPersist ==
  /\ \A i \in 1..Len(persistCalls) :
       LET p == persistCalls[i] IN
         /\ p.merge \in 1..Len(mergeCalls)
         /\ mergeCalls[p.merge].result = "ok"
         /\ p.template = MergedBase + p.merge
         /\ p.template \notin 1..MaxSamples
         /\ p.employee = mergeCalls[p.merge].userId
         /\ p.fingerNo = 0 /\ p.quality = 100
         /\ \A j \in 1..Len(persistCalls) : persistCalls[j].merge = p.merge => j = i
  /\ success =>
       /\ Len(persistCalls) > 0
       /\ persistCalls[Len(persistCalls)].result = "ok"

\* C9 witness: the dialog shows success
EnrollmentSucceeded == success /\ open /\ Len(persistCalls) > 0

\* C10: after a persist call failed, the next persist call of that session
\* carries the template of the same merge: no new merge, no new capture.
PersistAloneRetried ==
  \A i \in 1..Len(persistCalls) :
    (i < Len(persistCalls) /\ persistCalls[i].result = "failed"
       /\ persistCalls[i + 1].session = persistCalls[i].session)
      => persistCalls[i + 1].merge = persistCalls[i].merge

-----------------------------------------------------------------------------
(* Properties of the kiosk *)

Pending(a) == attempts[a].pc \in {"capture", "fetch", "match", "write"}

\* C3: at most one capture request (POST /capture) is in flight at any time.
SerializedDeviceAccess ==
  Cardinality({ a \in Attempts : attempts[a].pc = "capture" }) <= 1

\* the /match response reports a match: matched is true or the score is positive
MatchReported(r) ==
  /\ ~r.neterr
  /\ r.matched = <<TRUE>> \/ (r.score # Absent /\ r.score[1] > 0)

NoCaptureForNotEnrolled ==
  \A a \in Attempts :
    attempts[a].pc = "capture" => FingerprintEnrolled(attempts[a].employee)

\* C7: a capture request that got no response within the 15 s window does not
\* stay pending: it is aborted by the client.
NoCaptureOutlivesWindow ==
  \A a \in Attempts : ~(attempts[a].pc = "capture" /\ attempts[a].late)

\* C8: an attempt whose dialog was closed while it was pending makes no
\* further device or store call.
AbandonedAttemptStops ==
  \A a \in Attempts :
    attempts[a].abandoned => attempts[a].pc \notin {"fetch", "match", "write"}

-----------------------------------------------------------------------------
(* Properties of the device client adapters *)

\* C11: a match adapter (fingerprintService.verify, the kiosk's
\* verifyFingerprint) reports a match if and only if the fetch was answered,
\* success is truthy and matched is true or the score is positive, whatever
\* combination of success, matched and score the response holds.
MatchIffSuccessAndSignal ==
  svcCall.op \in MatchOperations =>
    LET r == svcCall.match IN
      /\ svcCall.outcome = "returns"
      /\ IsTruthy(svcCall.value) <=>
           /\ ~r.neterr
           /\ r.success = <<TRUE>>
           /\ r.matched = <<TRUE>> \/ (r.score # Absent /\ r.score[1] > 0)

\* C11 witness: fingerprintService.verify was answered {success: true, score: 1}
\* without a matched field, and reported a match
ScoreOnlyMatched ==
  /\ svcCall.op = "verify"
  /\ svcCall.match = [neterr |-> FALSE, success |-> <<TRUE>>, matched |-> Absent,
                       score |-> <<1>>]
  /\ svcCall.value = "true"

\* C13: every health operation returns `not connected` on a network error and
\* on a non-2xx response; none throws or rejects.
HealthFailsSoft ==
  svcCall.op \in HealthOperations =>
    /\ svcCall.outcome = "returns"
    /\ svcCall.health.kind # "ok" => ~svcCall.connected

-----------------------------------------------------------------------------
(* Properties of the kiosk: match, commit, order *)

\* the /match response {success: true, matched: false, score > 0}
MatchedFalseScored(r) ==
  /\ ~r.neterr /\ r.success = <<TRUE>>
  /\ r.matched = <<FALSE>>
  /\ r.score # Absent /\ r.score[1] > 0

\* C12 as stated: a response with matched = false and a positive score is a
\* non-match: the attempt that received it ends failed and posts no event.
ScoredNonMatchRejected ==
  \A a \in Attempts :
    LET rec == attempts[a] IN
      (rec.matchResp # Absent /\ MatchedFalseScored(rec.matchResp[1]))
        => rec.write = "none" /\ rec.pc = "done" /\ rec.result = "failed"

\* C12 as amended: a response with success true, matched = false and a positive
\* score is taken as a match (the positive score alone signals it): the attempt
\* that received it goes on to post the event.
ScoredNonMatchAccepted ==
  \A a \in Attempts :
    LET rec == attempts[a] IN
      (rec.matchResp # Absent /\ MatchedFalseScored(rec.matchResp[1]))
        => /\ rec.write # "none"
           /\ rec.pc = "write" \/ (rec.pc = "done" /\ rec.writeStatus # "none")

\* C12 witness: an attempt was answered {success: true, matched: false, score: 1}
\* and its event was written
ScoredNonMatchCommitted ==
  \E a \in Attempts :
    /\ attempts[a].matchResp # Absent
    /\ MatchedFalseScored(attempts[a].matchResp[1])
    /\ attempts[a].writeStatus = "ok"

\* C14: the kiosk shows the mismatch text only for a match call the device
\* answered with success and a non-match, never for a rejected fetch or for
\* success = false.
MismatchOnlyForAnsweredNonMatch ==
  [][ \A a \in Attempts :
        ( /\ attempts[a].pc = "match"
          /\ attempts'[a].pc = "done"
          /\ scanMessage' \in {MsgMismatch, MsgLeaveMismatch} )
        => LET r == attempts'[a].matchResp[1] IN
             ~r.neterr /\ r.success = <<TRUE>>
    ]_vars

\* C15: an attempt whose event write was not answered 2xx ends failed: the
\* result shown is 'failed', the text shown is not the mismatch text, and no
\* auto-close timer is set for it.
CommitFailureSurfaced ==
  [][ \A a \in Attempts :
        attempts'[a].writeStatus = "failed" =>
          /\ attempts'[a].pc = "done"
          /\ attempts'[a].result = "failed"
          /\ ~attempts'[a].timer
          /\ attempts[a].pc = "write" =>
               /\ scanResult' = "failed"
               /\ scanMessage' \notin {MsgMismatch, MsgLeaveMismatch}
    ]_vars

\* C15 witness: the device reported a match, the write failed, and the kiosk
\* shows the failure
CommitFailedShown ==
  \E a \in Attempts :
    /\ attempts[a].writeStatus = "failed"
    /\ MatchReported(attempts[a].matchResp[1])
    /\ scanResult = "failed"
    /\ scanMessage \in {MsgRecordFailed, MsgLeaveFailed}

\* the order of the calls of one attempt
CallOrder ==
  {<<"free", "capture">>, <<"capture", "fetch">>, <<"fetch", "match">>,
   <<"match", "write">>,
   <<"capture", "done">>, <<"fetch", "done">>, <<"match", "done">>,
   <<"write", "done">>}

\* C16: the calls of an attempt are made in the order capture, fetch, match,
\* commit, each after the response to the previous one: the fetch starts only
\* from a capture that returned, the match only from a fetch that returned,
\* the commit only from a match that returned.
CallsInOrder ==
  [][ \A a \in Attempts :
        /\ attempts'[a].pc # attempts[a].pc
             => <<attempts[a].pc, attempts'[a].pc>> \in CallOrder
        /\ attempts'[a].pc = "fetch" => attempts'[a].captured
        /\ attempts'[a].pc = "match" =>
             attempts'[a].captured /\ attempts'[a].fetched # "none"
        /\ attempts'[a].pc = "write" =>
             /\ attempts'[a].captured /\ attempts'[a].fetched # "none"
             /\ attempts'[a].matchResp # Absent
    ]_vars

\* C16 witness: an attempt has reached its commit
CommitReached ==
  \E a \in Attempts :
    /\ attempts[a].pc = "write"
    /\ attempts[a].captured /\ attempts[a].matchCalled

-----------------------------------------------------------------------------
(* Properties of recovery and cancellation *)

\* the scan button of the open kiosk dialog can be pressed
CaptureCanStart ==
  IF leaveDialogOpen THEN LeaveScanButtonEnabled ELSE ScanButtonEnabled(OpenAction)

CloseAlwaysPermitted ==
  (open /\ employee # NoEmployee /\ ~success /\ error = NoError)
    => ENABLED HandleClose

\* C19: the enrollment dialog never holds more than 3 samples.
AtMostThreeSamples == Len(templates) <= RequiredCaptures

\* C21: once the dialog shows success, nothing more happens in that session:
\* no run is pending, and as long as the dialog is not opened again no sample
\* is captured, no merge or persist request is issued and success stays set;
\* and "Start Over" leaves the dialog with no samples, at capture 1, with no
\* error, ready for a capture.
SuccessIsTerminal ==
  [][/\ (success /\ session' = session) =>
          /\ pc = "idle" /\ pc' = "idle"
          /\ success'
          /\ UNCHANGED <<templates, nextSample, mergeCalls, persistCalls>>
     /\ HandleRetry =>
          /\ templates' = <<>> /\ activeStep' = 0 /\ error' = NoError
          /\ ~success'
          /\ ReadyViewShown']_vars

\* a session that failed at the merge, was started over, and then succeeded
\* with three samples captured after the failure
StartedOverThenSucceeded ==
  /\ success /\ open
  /\ \E i, j \in 1..Len(mergeCalls) :
       /\ i < j
       /\ mergeCalls[i].session = session /\ mergeCalls[j].session = session
       /\ mergeCalls[i].result = "failed" /\ mergeCalls[j].result = "ok"
       /\ Len(mergeCalls[j].templates) = RequiredCaptures
       /\ Range(mergeCalls[i].templates) \cap Range(mergeCalls[j].templates) = {}

\* C22: a failure of the save phase (merge or persist) is shown under the
\* title 'Save Failed', and the error view then offers no "Retry Capture"
\* button, which would ask for a capture beyond the third.
SaveFailureShownAsSaveFailure ==
  (ErrorViewShown /\ error \in {ErrMerge, ErrSave}) =>
    /\ ErrorTitle = "Save Failed"
    /\ ~RetryCaptureShown

\* C24: every sample sent to the merge endpoint was returned by a capture
\* request that was started in the session the dialog is in when the merge is
\* requested, and for the employee the merge is requested for; a capture of an
\* earlier session never contributes to a later one.
MergedSamplesFromCurrentSession ==
  [][Len(mergeCalls') > Len(mergeCalls) =>
       LET call == mergeCalls'[Len(mergeCalls')] IN
         \A t \in Range(call.templates) :
           /\ captures[t].session = session
           /\ captures[t].employee = call.userId]_vars

\* C25: the auto-close timer armed by a successful enrollment only acts on the
\* session that armed it: when it fires after that session was closed and
\* another one opened, it leaves the dialog as it is.
SuccessTimerOwnSession ==
  [][\A s \in 1..MaxSessions :
       (OnSuccessTimer(s) /\ s # session) => UNCHANGED open]_vars

\* C27: whenever the dialog is capturing or saving it eventually is neither,
\* even if the device service or the backend never answers, so that the dialog
\* becomes closable again.
BusyEventuallyEnds == (capturing \/ saving) ~> ~(capturing \/ saving)

-----------------------------------------------------------------------------
(* Properties of the kiosk, continued *)

\* C26: in the leave flow, once the form has been submitted and the
\* fingerprint step is shown, the "Scan Fingerprint" button is offered whenever
\* no attempt is in flight, so that the user can start the attempt that posts
\* the leave request.
LeaveScanOffered ==
  (LeaveScanShown /\ \A a \in Attempts : ~Pending(a)) => LeaveScanButtonEnabled

\* C28: the event a kiosk attempt posts names the employee whose stored
\* template the attempt fetched and matched, which is the employee that was
\* selected when the scan was started, whatever employee the kiosk shows by the
\* time the event is posted.
CommitNamesScannedEmployee ==
  \A a \in Attempts :
    LET rec == attempts[a] IN
      rec.pc = "write" =>
        /\ rec.employee \in Employees
        /\ rec.matchCalled
        /\ rec.fetchFor = EmployeeId(rec.employee)
        /\ rec.writeFor = IF rec.action = "leave"
                            THEN EmployeeId(rec.employee)
                            ELSE EmployeeNumber(rec.employee)

\* an event is being posted while the kiosk shows another employee than the
\* one the scan was started for
CommitAfterEmployeeChanged ==
  \E a \in Attempts :
    /\ attempts[a].pc = "write"
    /\ kEmployee \in Employees
    /\ kEmployee # attempts[a].employee

\* C29: the kiosk starts no capture request while its most recent health
\* check reported the scanner as not connected, whichever action the attempt
\* serves and whenever its dialog was opened.
NoCaptureWhileDisconnected ==
  [][\A a \in Attempts :
       (attempts[a].pc = "free" /\ attempts'[a].pc = "capture")
         => kScannerConnected]_vars

-----------------------------------------------------------------------------
(* Properties of FingerprintApi.enrollWithCaptures *)

\* C23: a call of enrollWithCaptures issues its captures one after another, at
\* most 3 of them; at the first capture that does not succeed it settles at
\* once as a failure without another capture and without an enroll request;
\* it issues the enroll request exactly once, for the user it was called for
\* and with the 3 captured templates in capture order, only when all 3 captures
\* succeeded.
EnrollOnlyAfterThreeCaptures ==
  LET CallsOf(op) == { k \in 1..Len(apiCalls) : apiCalls[k].op = op }
      CaptureSucceededResult(r) == ~r.neterr /\ r.success = <<TRUE>>
      captured == CallsOf("capture")
      enrolled == CallsOf("enroll")
      allThree == /\ Len(apiAnswers) = TotalCaptures
                  /\ \A k \in 1..TotalCaptures : CaptureSucceededResult(apiAnswers[k]) IN
  /\ Cardinality(captured) <= TotalCaptures
  /\ Cardinality(captured) <= Len(apiAnswers) + 1
  /\ Cardinality(captured) = Len(apiAnswers) + 1 <=> apiPc = "capture"
  /\ \A k \in 1..Len(apiAnswers) :
       ~CaptureSucceededResult(apiAnswers[k]) =>
         /\ k = Len(apiAnswers)
         /\ Cardinality(captured) = k
         /\ enrolled = {}
         /\ apiPc = "idle"
         /\ IF apiAnswers[k].neterr
              THEN apiResult.settled = "rejected"
              ELSE apiResult.settled = "returned" /\ apiResult.success = <<FALSE>>
  /\ Cardinality(enrolled) <= 1
  /\ enrolled # {} <=> allThree
  /\ \A e \in enrolled :
       /\ e = Len(apiCalls)
       /\ apiCalls[e].userId = apiUserId
       /\ apiCalls[e].templates = [k \in 1..TotalCaptures |-> apiAnswers[k].template]

\* a call that captured three templates, not all the same, and whose enroll
\* request was answered with success
EnrolledThreeCaptures ==
  /\ apiPc = "idle"
  /\ apiResult = Returned(TRUE, Absent)
  /\ \E e \in 1..Len(apiCalls) :
       /\ apiCalls[e].op = "enroll"
       /\ Len(apiCalls[e].templates) = TotalCaptures
       /\ apiCalls[e].templates[1] = <<"t1">>
       /\ apiCalls[e].templates[2] = <<"t2">>

-----------------------------------------------------------------------------
(* Properties of the auth store *)

\* C30: from logout() until the next successful login the store holds no
\* user, is not authenticated, and localStorage holds neither 'token' nor
\* 'user', whatever requests of an earlier checkAuth are answered meanwhile.
LoggedOutStaysLoggedOut ==
  loggedOut =>
    /\ authUser = NoUser
    /\ ~isAuthenticated
    /\ lsToken = Absent
    /\ lsUser = Absent

====
